---- MODULE Spec2Model ----
(***************************************************************************)
(* State-machine model of the branching-narrative engine of game.py:       *)
(* the choice filter (get_choices, get_locked_choices, apply_choice), the  *)
(* scene-text parser (strip_scene_prefix), the renderers and the           *)
(* transition function step, driven by the turn loop of run_game.          *)
(*                                                                         *)
(* Python dicts are functions whose DOMAIN is the set of keys present, so  *)
(* that an optional key (stats_config, requires, help_mode, ...) is either *)
(* in the domain or not, and d.get(k, default) is Get(d, k, default).      *)
(* A string the program inspects character by character (the player's      *)
(* input, a node's text) is a sequence of character tokens.                *)
(***************************************************************************)
EXTENDS Integers, Sequences, FiniteSets, TLC

VARIABLES story, state, prev_state, arg_state, user_input, output_lines, should_exit,
          log, pc

vars == <<story, state, prev_state, arg_state, user_input, output_lines, should_exit,
          log, pc>>

----------------------------------------------------------------------------
(* Bounds of the model *)

\* longest history_stack explored
MaxHistory == 2
\* largest absolute value of a stat explored
MaxStat == 2

----------------------------------------------------------------------------
(* Python built-ins *)

EmptyDict == <<>>

Get(d, k, default) == IF k \in DOMAIN d THEN d[k] ELSE default

\* d[k] = v on a dict
DictSet(d, k, v) == [x \in (DOMAIN d) \cup {k} |-> IF x = k THEN v ELSE d[x]]

Range(s) == {s[i] : i \in 1..Len(s)}

\* characters: "sp" is a blank, "sup2" the superscript two (U+00B2), "a" a letter
Whitespace == {"sp"}
DecimalChars == {"0", "1", "2", "8", "9"}
DigitChars == DecimalChars \cup {"sup2"}
InputAlphabet == DecimalChars \cup {"sup2", "sp", "a"}

DigitValue(c) ==
    CASE c = "0" -> 0
      [] c = "1" -> 1
      [] c = "2" -> 2
      [] c = "8" -> 8
      [] c = "9" -> 9
      [] OTHER -> 0

RECURSIVE LStrip(_)
LStrip(s) == IF s # <<>> /\ Head(s) \in Whitespace THEN LStrip(Tail(s)) ELSE s

RECURSIVE RStrip(_)
RStrip(s) ==
    IF s # <<>> /\ s[Len(s)] \in Whitespace THEN RStrip(SubSeq(s, 1, Len(s) - 1)) ELSE s

\* str.strip()
Strip(s) == RStrip(LStrip(s))

\* str.isdigit(): non-empty and every character has the digit property,
\* which superscript digits have
IsDigit(s) == s # <<>> /\ \A i \in 1..Len(s) : s[i] \in DigitChars

\* int(s) accepts decimal digits only; it raises ValueError on any other character
IntRaises(s) == s = <<>> \/ \E i \in 1..Len(s) : s[i] \notin DecimalChars

RECURSIVE IntValue(_)
IntValue(s) ==
    IF s = <<>> THEN 0 ELSE 10 * IntValue(SubSeq(s, 1, Len(s) - 1)) + DigitValue(s[Len(s)])

----------------------------------------------------------------------------
(* Output lines: every line is a record of the same shape *)

Line(kind, text, n, m, tags) == [kind |-> kind, text |-> text, n |-> n, m |-> m, tags |-> tags]

Fixed(kind) == Line(kind, <<>>, 0, 0, <<>>)

----------------------------------------------------------------------------
(* Stories *)

Flags == {"clue"}
\* sorted(flags) lists the flags in this order
FlagOrder == <<"clue">>

\* a story with a suspicion threshold, a flag gate, a stat gate, stat deltas
\* and two endings
StoryMain ==
    [title |-> "main",
     start |-> "start",
     flag_descriptions |-> [clue |-> "d"],
     stats_config |-> [suspicion_max |-> 2, suspicion_fail_node |-> "caught"],
     node_order |-> <<"start", "alley", "escape", "caught">>,
     nodes |->
       [start |->
          [text |-> <<"R", "di", "1", "2", "chang", "colon", "sp", "b">>,
           choices |->
             << [text |-> "bribe", next |-> "alley",
                 requires_stats |-> <<<<"silver", 2>>>>,
                 delta_stats |-> <<<<"suspicion", 1>>, <<"silver", -3>>>>],
                [text |-> "search", next |-> "alley", set_flags |-> <<"clue">>,
                 delta_stats |-> <<<<"silver", 1>>>>],
                [text |-> "flee", next |-> "escape", requires |-> <<"clue">>,
                 delta_stats |-> <<<<"suspicion", 1>>>>],
                [text |-> "both", next |-> "start", requires |-> <<"clue">>,
                 requires_stats |-> <<<<"silver", 1>>, <<"favor", 1>>>>] >>],
        alley |->
          [text |-> <<"b">>,
           choices |->
             << [text |-> "return", next |-> "start",
                 delta_stats |-> <<<<"suspicion", 1>>>>],
                [text |-> "hide", next |-> "start",
                 delta_stats |-> <<<<"suspicion", -1>>, <<"favor", 1>>, <<"silver", 0>>>>] >>],
        escape |-> [text |-> <<"b", "sp">>, ending |-> TRUE],
        caught |-> [text |-> <<"di", "1", "chang", "colon">>, ending |-> TRUE, choices |-> <<>>]]]

\* a story without stats_config whose start node offers nine choices
StoryMenu ==
    [title |-> "menu",
     start |-> "start",
     node_order |-> <<"start", "room", "end">>,
     nodes |->
       [start |->
          [text |-> <<"b">>,
           choices |->
             << [text |-> "m1", next |-> "room"],
                [text |-> "m2", next |-> "end"],
                [text |-> "m3", next |-> "start"],
                [text |-> "m4", next |-> "start"],
                [text |-> "m5", next |-> "start"],
                [text |-> "m6", next |-> "start"],
                [text |-> "m7", next |-> "start"],
                [text |-> "m8", next |-> "room", set_flags |-> <<"clue">>],
                [text |-> "m9", next |-> "end", delta_stats |-> <<<<"silver", 1>>>>] >>],
        room |->
          [text |-> <<"b">>,
           choices |->
             << [text |-> "r1", next |-> "start",
                 delta_stats |-> <<<<"suspicion", 2>>, <<"silver", -1>>>>] >>],
        end |-> [text |-> <<"b">>, ending |-> TRUE]]]

\* a story whose threshold is 0 and whose failure node is an ordinary node
StoryLoose ==
    [title |-> "loose",
     start |-> "start",
     flag_descriptions |-> EmptyDict,
     stats_config |-> [suspicion_max |-> 0, suspicion_fail_node |-> "start"],
     node_order |-> <<"start", "end">>,
     nodes |->
       [start |->
          [text |-> <<"b">>,
           choices |->
             << [text |-> "wait", next |-> "start",
                 delta_stats |-> <<<<"suspicion", -1>>>>],
                [text |-> "leave", next |-> "end"] >>],
        end |-> [text |-> <<"b">>, ending |-> TRUE]]]

Stories == {StoryMain, StoryMenu, StoryLoose}

----------------------------------------------------------------------------
(* validate_story: the reason of the first failed check, or "ok" *)

None == "None"

\* JSON values that are not objects: null (None once loaded) and a list
JNull == [json_type |-> "null"]
JList == [json_type |-> "list"]

\* isinstance(v, dict)
IsDict(v) == "json_type" \notin DOMAIN v

Ok == [reason |-> "ok", node |-> None]
\* raise ValueError(...)
Err(reason, node_id) == [reason |-> reason, node |-> node_id]
\* an operation of the validator itself raises TypeError
TypeErrorAt(node_id) == [reason |-> "TypeError", node |-> node_id]

\* the checks of one choice, in the code's order
ValidateChoice(story_, node_id, choice) ==
    LET nodes == story_.nodes
        flag_descriptions == Get(story_, "flag_descriptions", EmptyDict)
        choice_text == Get(choice, "text", None)
        next_id == Get(choice, "next", None)
        requires == Get(choice, "requires", None)
    IN  IF choice_text = None \/ choice_text = "" THEN Err("choice_text", node_id)
        ELSE IF next_id = None \/ next_id = "" THEN Err("choice_next", node_id)
        ELSE IF next_id \notin DOMAIN nodes THEN Err("choice_next_missing", node_id)
        ELSE IF "requires" \in DOMAIN choice /\ requires # <<>> /\ ~IsDict(flag_descriptions)
             \* flag not in flag_descriptions, with flag_descriptions None
             THEN TypeErrorAt(node_id)
        ELSE IF "requires" \in DOMAIN choice
                /\ \E i \in 1..Len(requires) : requires[i] \notin DOMAIN flag_descriptions
             THEN Err("requires_undescribed", node_id)
        ELSE Ok

RECURSIVE ValidateChoices(_, _, _, _)
ValidateChoices(story_, node_id, choices, i) ==
    IF i > Len(choices) THEN Ok
    ELSE LET r == ValidateChoice(story_, node_id, choices[i])
         IN  IF r # Ok THEN r ELSE ValidateChoices(story_, node_id, choices, i + 1)

ValidateNode(story_, node_id) ==
    LET node == story_.nodes[node_id]
        text == Get(node, "text", <<>>)
        choices == Get(node, "choices", <<>>)
        ending == Get(node, "ending", FALSE)
    IN  IF Strip(text) = <<>> THEN Err("node_text", node_id)
        ELSE IF ending
             THEN IF choices # <<>> THEN Err("ending_has_choices", node_id) ELSE Ok
        ELSE IF choices = <<>> THEN Err("node_no_choices", node_id)
        ELSE ValidateChoices(story_, node_id, choices, 1)

RECURSIVE ValidateNodes(_, _)

\* ValidateNodes checking the first node only
ValidateNodesFirstOnly(story_, i) ==
    IF i > Len(story_.node_order) THEN Ok ELSE ValidateNode(story_, story_.node_order[i])

ValidateNodes(story_, i) ==
    IF i > Len(story_.node_order) THEN Ok
    ELSE LET r == ValidateNode(story_, story_.node_order[i])
         IN  IF r # Ok THEN r ELSE ValidateNodes(story_, i + 1)

validate_story(story_) ==
    LET title == Get(story_, "title", None)
        start == Get(story_, "start", None)
        nodes == Get(story_, "nodes", EmptyDict)
        stats_config == Get(story_, "stats_config", None)
        flag_descriptions == Get(story_, "flag_descriptions", EmptyDict)
        suspicion_max == Get(stats_config, "suspicion_max", None)
        fail_node == Get(stats_config, "suspicion_fail_node", None)
    IN  IF ~IsDict(story_) THEN Err("root", None)
        ELSE IF title = None \/ title = "" THEN Err("title", None)
        ELSE IF start = None \/ start = "" THEN Err("start", None)
        ELSE IF DOMAIN nodes = {} THEN Err("nodes", None)
        ELSE IF flag_descriptions # JNull /\ ~IsDict(flag_descriptions)
             THEN Err("flag_descriptions", None)
        ELSE IF "stats_config" \in DOMAIN story_
                /\ ("suspicion_max" \notin DOMAIN stats_config \/ suspicion_max < 0)
             THEN Err("suspicion_max", None)
        ELSE IF "stats_config" \in DOMAIN story_ /\ (fail_node = None \/ fail_node = "")
             THEN Err("suspicion_fail_node", None)
        ELSE IF "stats_config" \in DOMAIN story_ /\ fail_node \notin DOMAIN nodes
             THEN Err("suspicion_fail_node_missing", None)
        ELSE IF start \notin DOMAIN nodes THEN Err("start_missing", None)
        ELSE ValidateNodes(story_, 1)

\* the stories the turn loop can run: run_game stops on a rejected story
ValidStories == {s \in Stories : validate_story(s) = Ok}

----------------------------------------------------------------------------
(* Choice filter *)

\* all(stats.get(key, 0) >= value for key, value in requires_stats.items())
StatsMet(requires_stats, stats) ==
    \A i \in 1..Len(requires_stats) :
        Get(stats, requires_stats[i][1], 0) >= requires_stats[i][2]

\* VisibleIndices without the filter: every declared index
VisibleIndicesUnfiltered(story_, node_id, flags, stats) ==
    [i \in 1..Len(Get(story_.nodes[node_id], "choices", <<>>)) |-> i]

\* the indices, in declared order, of the choices that pass the filter
VisibleIndices(story_, node_id, flags, stats) ==
    LET choices == Get(story_.nodes[node_id], "choices", <<>>)
        Passes(i) == /\ Range(Get(choices[i], "requires", <<>>)) \subseteq flags
                     /\ StatsMet(Get(choices[i], "requires_stats", <<>>), stats)
    IN  SelectSeq([i \in 1..Len(choices) |-> i], Passes)

get_choices(story_, node_id, flags, stats) ==
    LET choices == Get(story_.nodes[node_id], "choices", <<>>)
        idx == VisibleIndices(story_, node_id, flags, stats)
    IN  [k \in 1..Len(idx) |-> choices[idx[k]]]

\* [f for f in requires if f not in flags]
MissingFlags(choice, flags) ==
    LET InFlags(f) == f \notin flags
    IN  SelectSeq(Get(choice, "requires", <<>>), InFlags)

\* MissingStats counting a stat that equals its threshold as unmet
MissingStatsInclusive(choice, stats) ==
    LET Unmet(p) == Get(stats, p[1], 0) <= p[2]
    IN  SelectSeq(Get(choice, "requires_stats", <<>>), Unmet)

\* [(key, value) for key, value in requires_stats.items() if stats.get(key, 0) < value]
MissingStats(choice, stats) ==
    LET Unmet(p) == Get(stats, p[1], 0) < p[2]
    IN  SelectSeq(Get(choice, "requires_stats", <<>>), Unmet)

\* the locked entries (choice, missing_flags, missing_stats), in declared order
get_locked_choices(story_, node_id, flags, stats) ==
    LET choices == Get(story_.nodes[node_id], "choices", <<>>)
        entries == [i \in 1..Len(choices) |->
                      [choice |-> choices[i],
                       missing_flags |-> MissingFlags(choices[i], flags),
                       missing_stats |-> MissingStats(choices[i], stats)]]
        IsLocked(entry) == entry.missing_flags # <<>> \/ entry.missing_stats # <<>>
    IN  SelectSeq(entries, IsLocked)

\* raises IndexError when choice_index is outside 1..len(choices)
ApplyChoiceRaises(story_, node_id, choice_index, flags, stats) ==
    LET choices == get_choices(story_, node_id, flags, stats)
    IN  choice_index < 1 \/ choice_index > Len(choices)

apply_choice(story_, node_id, choice_index, flags, stats) ==
    LET choice == get_choices(story_, node_id, flags, stats)[choice_index]
    IN  [next |-> choice.next,
         set_flags |-> Range(Get(choice, "set_flags", <<>>)),
         delta_stats |-> Get(choice, "delta_stats", <<>>)]

----------------------------------------------------------------------------
(* Scene-text parser: ^(?P<route>\S+?)第(?P<index>\d+)场[:：]\s*               *)
(* "di" is the character 第, "chang" is 场, "colon" and "fcolon" the two colons *)

SceneDigits == {"0", "1", "2", "8", "9"}
SceneColons == {"colon", "fcolon"}

\* the last index of the run of characters of class cls that starts at index from
RECURSIVE RunEnd(_, _, _)
RunEnd(text, from, cls) ==
    IF from <= Len(text) /\ text[from] \in cls THEN RunEnd(text, from + 1, cls) ELSE from - 1

\* the pattern matches with a route of i characters
MatchesWithRoute(text, i) ==
    /\ i >= 1
    /\ i + 1 <= Len(text)
    /\ \A k \in 1..i : text[k] \notin Whitespace
    /\ text[i + 1] = "di"
    /\ LET j == RunEnd(text, i + 2, SceneDigits)
       IN  /\ j >= i + 2
           /\ j + 2 <= Len(text)
           /\ text[j + 1] = "chang"
           /\ text[j + 2] \in SceneColons

\* the lazy route takes the fewest characters for which the rest matches
strip_scene_prefix(text) ==
    LET routes == {i \in 1..Len(text) : MatchesWithRoute(text, i)}
    IN  IF routes = {} THEN [text |-> text, meta |-> EmptyDict]
        ELSE LET i == CHOOSE r \in routes : \A q \in routes : r <= q
                 j == RunEnd(text, i + 2, SceneDigits)
                 e == RunEnd(text, j + 3, Whitespace)
             IN  [text |-> SubSeq(text, e + 1, Len(text)),
                  meta |-> [route |-> SubSeq(text, 1, i),
                            index |-> IntValue(SubSeq(text, i + 2, j))]]

----------------------------------------------------------------------------
(* Renderers *)

StatText(key) ==
    IF key = "silver" THEN "purse"
    ELSE IF key = "suspicion" THEN "attention"
    ELSE "moment"

\* the line of one locked entry: the choice's text and its unmet requirements
LockedLine(entry) ==
    Line("locked", <<entry.choice.text>>, 0, 0,
         (IF entry.missing_flags # <<>> THEN <<"condition">> ELSE <<>>)
         \o [k \in 1..Len(entry.missing_stats) |-> StatText(entry.missing_stats[k][1])])

_render_normal(story_, node_id, flags, stats) ==
    LET node == story_.nodes[node_id]
        clean_text == strip_scene_prefix(node.text).text
        choices == get_choices(story_, node_id, flags, stats)
        locked == get_locked_choices(story_, node_id, flags, stats)
    IN  <<Line("text", clean_text, 0, 0, <<>>), Fixed("prompt")>>
        \o [k \in 1..Len(choices) |-> Line("choice", <<choices[k].text>>, k, 0, <<>>)]
        \o (IF locked # <<>>
            THEN <<Fixed("locked_header")>> \o [k \in 1..Len(locked) |-> LockedLine(locked[k])]
            ELSE <<>>)
        \o <<Fixed("footer")>>

_render_ending(story_, node_id, stats) ==
    LET node == story_.nodes[node_id]
        clean_text == strip_scene_prefix(node.text).text
    IN  <<Line("text", clean_text, 0, 0, <<>>), Fixed("ending_hint")>>

----------------------------------------------------------------------------
(* step *)

ZeroStats == [suspicion |-> 0, silver |-> 0]

\* the flavor line of one delta; stats other than silver and suspicion have none
FlavorLines(key, delta) ==
    IF delta = 0 THEN <<>>
    ELSE IF key = "silver"
         THEN IF delta > 0 THEN <<Fixed("silver_up")>> ELSE <<Fixed("silver_down")>>
    ELSE IF key = "suspicion"
         THEN IF delta > 0 THEN <<Fixed("suspicion_up")>> ELSE <<Fixed("suspicion_down")>>
    ELSE <<>>

\* for key, delta in delta_stats.items(): the stats and the lines after the loop
RECURSIVE ApplyDeltas(_, _)
ApplyDeltas(stats, delta_stats) ==
    IF delta_stats = <<>> THEN [stats |-> stats, lines |-> <<>>]
    ELSE LET key == Head(delta_stats)[1]
             delta == Head(delta_stats)[2]
             rest == ApplyDeltas(DictSet(stats, key, Get(stats, key, 0) + delta),
                                 Tail(delta_stats))
         IN  [stats |-> rest.stats, lines |-> FlavorLines(key, delta) \o rest.lines]

\* ClampSilver without the clamp
ClampSilverOmitted(stats) == stats

\* if stats.get("silver", 0) < 0: stats["silver"] = 0
ClampSilver(stats) ==
    IF Get(stats, "silver", 0) < 0 THEN DictSet(stats, "silver", 0) ELSE stats

\* SuspicionForced comparing silver with the threshold
SuspicionForcedOnSilver(story_, stats) ==
    LET stats_config == Get(story_, "stats_config", EmptyDict)
    IN  /\ DOMAIN stats_config # {}
        /\ "suspicion_max" \in DOMAIN stats_config
        /\ Get(stats_config, "suspicion_fail_node", "") # ""
        /\ Get(stats, "silver", 0) >= stats_config.suspicion_max

\* SuspicionForced with a strict comparison
SuspicionForcedStrict(story_, stats) ==
    LET stats_config == Get(story_, "stats_config", EmptyDict)
    IN  /\ DOMAIN stats_config # {}
        /\ "suspicion_max" \in DOMAIN stats_config
        /\ Get(stats_config, "suspicion_fail_node", "") # ""
        /\ Get(stats, "suspicion", 0) > stats_config.suspicion_max

\* if stats_config: ... suspicion_max is not None and fail_node and
\* stats.get("suspicion", 0) >= suspicion_max
SuspicionForced(story_, stats) ==
    LET stats_config == Get(story_, "stats_config", EmptyDict)
    IN  /\ DOMAIN stats_config # {}
        /\ "suspicion_max" \in DOMAIN stats_config
        /\ Get(stats_config, "suspicion_fail_node", "") # ""
        /\ Get(stats, "suspicion", 0) >= stats_config.suspicion_max

\* DestinationIsEnding testing the node the choice was taken at
DestinationIsEndingOfOrigin(story_, node_id, next_node_id) ==
    Get(story_.nodes[node_id], "ending", FALSE)

\* story["nodes"][next_node_id].get("ending"), for a choice taken at node_id
DestinationIsEnding(story_, node_id, next_node_id) ==
    Get(story_.nodes[next_node_id], "ending", FALSE)

Result(branch, new_state, lines, exit) ==
    [branch |-> branch, state |-> new_state, output_lines |-> lines,
     should_exit |-> exit, raised |-> FALSE]

\* StepEmpty rendering the node as a normal node in either mode
StepEmptyAsNormal(state_, story_, flags, stats) ==
    Result("empty", state_, _render_normal(story_, state_.node_id, flags, stats), FALSE)

\* the empty-input branch: the current node rendered again
StepEmpty(state_, story_, flags, stats) ==
    IF state_.mode = "ending"
    THEN Result("empty", state_, _render_ending(story_, state_.node_id, stats), FALSE)
    ELSE Result("empty", state_, _render_normal(story_, state_.node_id, flags, stats), FALSE)

\* StepRestart carrying the flags over
StepRestartKeepsFlags(state_, story_) ==
    Result("restart",
           [node_id |-> story_.start,
            history_stack |-> <<>>,
            mode |-> "normal",
            flags |-> Get(state_, "flags", {}),
            stats |-> ZeroStats],
           _render_normal(story_, story_.start, Get(state_, "flags", {}), ZeroStats),
           FALSE)

\* ending mode, input "1": a fresh state at the start node
StepRestart(state_, story_) ==
    Result("restart",
           [node_id |-> story_.start,
            history_stack |-> <<>>,
            mode |-> "normal",
            flags |-> {},
            stats |-> ZeroStats],
           _render_normal(story_, story_.start, {}, ZeroStats),
           FALSE)

\* StepEndingExit without the exit signal
StepEndingExitUnsignalled(state_) == Result("ending_exit", state_, <<Fixed("exit")>>, FALSE)

\* ending mode, input "9"
StepEndingExit(state_) == Result("ending_exit", state_, <<Fixed("exit")>>, TRUE)

\* StepEndingInvalid leaving ending mode
StepEndingInvalidLeavesEnding(state_, story_, stats) ==
    Result("ending_invalid", [state_ EXCEPT !.mode = "normal"],
           <<Fixed("invalid")>> \o _render_ending(story_, state_.node_id, stats),
           FALSE)

\* ending mode, any other input
StepEndingInvalid(state_, story_, stats) ==
    Result("ending_invalid", state_,
           <<Fixed("invalid")>> \o _render_ending(story_, state_.node_id, stats),
           FALSE)

\* ToggleHelp never turning help_mode off
ToggleHelpSticky(help_mode) == IF help_mode = 0 THEN 1 ELSE help_mode

\* help_mode = 0 if help_mode == 1 else 1
ToggleHelp(help_mode) == IF help_mode = 1 THEN 0 ELSE 1

\* DebugBlock shown while help_mode is still 0
DebugBlockOnFirst(state_, story_, flags, stats, help_mode) ==
    IF help_mode = 0
    THEN <<Line("debug_node", <<state_.node_id>>, 0, 0, <<>>),
           Line("debug_stats", <<>>, Get(stats, "suspicion", 0), Get(stats, "silver", 0), <<>>),
           Fixed("debug_hint")>>
    ELSE <<>>

\* if help_mode == 1: the node id, the sorted flags when there are any, the two
\* stats, the route and index when the node's text carries them, the hint
DebugBlock(state_, story_, flags, stats, help_mode) ==
    LET node == story_.nodes[state_.node_id]
        meta == strip_scene_prefix(Get(node, "text", <<>>)).meta
        FlagList(f) == f \in flags
    IN  IF help_mode = 1
        THEN <<Line("debug_node", <<state_.node_id>>, 0, 0, <<>>)>>
             \o (IF flags # {}
                 THEN <<Line("debug_flags", <<>>, 0, 0, SelectSeq(FlagOrder, FlagList))>>
                 ELSE <<>>)
             \o <<Line("debug_stats", <<>>, Get(stats, "suspicion", 0),
                       Get(stats, "silver", 0), <<>>)>>
             \o (IF DOMAIN meta # {}
                 THEN <<Line("debug_route", meta.route, meta.index, 0, <<>>)>>
                 ELSE <<>>)
             \o <<Fixed("debug_hint")>>
        ELSE <<>>

\* the help branch: the short help, the diagnostic block when help_mode is 1,
\* the toggle written into the state it was passed, the node rendered again
StepHelp(state_, story_, flags, stats, help_mode) ==
    Result("help", DictSet(state_, "help_mode", ToggleHelp(help_mode)),
           <<Fixed("help"), Fixed("help_hint")>>
           \o DebugBlock(state_, story_, flags, stats, help_mode)
           \o _render_normal(story_, state_.node_id, flags, stats),
           FALSE)

\* normal mode, input "9"
StepExit(state_) == Result("exit", state_, <<Fixed("exit")>>, TRUE)

\* StepBack leaving the entry it returns to on the history
StepBackKeepsHistory(state_, story_, flags, history, stats) ==
    IF history # <<>>
    THEN Result("back",
                [node_id |-> history[Len(history)],
                 history_stack |-> history,
                 mode |-> "normal",
                 flags |-> flags,
                 stats |-> stats],
                _render_normal(story_, history[Len(history)], flags, stats),
                FALSE)
    ELSE Result("back", state_,
                <<Fixed("cannot_back")>> \o _render_normal(story_, state_.node_id, flags, stats),
                FALSE)

\* StepBack returning to the oldest entry of the history
StepBackToOldest(state_, story_, flags, history, stats) ==
    IF history # <<>>
    THEN Result("back",
                [node_id |-> history[1],
                 history_stack |-> Tail(history),
                 mode |-> "normal",
                 flags |-> flags,
                 stats |-> stats],
                _render_normal(story_, history[1], flags, stats),
                FALSE)
    ELSE Result("back", state_,
                <<Fixed("cannot_back")>> \o _render_normal(story_, state_.node_id, flags, stats),
                FALSE)

\* the back branch
StepBack(state_, story_, flags, history, stats) ==
    IF history # <<>>
    THEN LET new_node_id == history[Len(history)]
         IN  Result("back",
                    [node_id |-> new_node_id,
                     history_stack |-> SubSeq(history, 1, Len(history) - 1),
                     mode |-> "normal",
                     flags |-> flags,
                     stats |-> stats],
                    _render_normal(story_, new_node_id, flags, stats),
                    FALSE)
    ELSE Result("back", state_,
                <<Fixed("cannot_back")>> \o _render_normal(story_, state_.node_id, flags, stats),
                FALSE)

\* PushedNode taking the node the choice leads to
PushedNodeIsDestination(state_, next_node_id) == next_node_id

\* history.append(state["node_id"]): the node pushed when a choice leading to
\* next_node_id is taken in state_
PushedNode(state_, next_node_id) == state_.node_id

\* the branch of an in-range choice index
StepChoice(state_, story_, choice_index, flags0, history0, stats0, help_mode) ==
    LET choices == get_choices(story_, state_.node_id, flags0, stats0)
        applied == apply_choice(story_, state_.node_id, choice_index, flags0, stats0)
        next_node_id == applied.next
        last_choice == choices[choice_index].text
        flags == flags0 \cup applied.set_flags
        history == Append(history0, PushedNode(state_, next_node_id))
        after == ApplyDeltas(stats0, applied.delta_stats)
        stats == ClampSilver(after.stats)
        fail_node == Get(story_, "stats_config", EmptyDict).suspicion_fail_node
        NewState(node_id, mode) ==
            [node_id |-> node_id,
             history_stack |-> history,
             mode |-> mode,
             flags |-> flags,
             stats |-> stats,
             last_choice |-> last_choice,
             help_mode |-> help_mode]
    IN  IF SuspicionForced(story_, stats)
        THEN Result("choice", NewState(fail_node, "ending"),
                    after.lines \o <<Fixed("forced_fail")>>
                    \o _render_ending(story_, fail_node, stats),
                    FALSE)
        ELSE IF DestinationIsEnding(story_, state_.node_id, next_node_id)
        THEN Result("choice", NewState(next_node_id, "ending"),
                    after.lines \o _render_ending(story_, next_node_id, stats),
                    FALSE)
        ELSE Result("choice", NewState(next_node_id, "normal"),
                    after.lines \o _render_normal(story_, next_node_id, flags, stats),
                    FALSE)

\* the last branch: the invalid-input message and the current node rendered again
StepInvalid(state_, story_, flags, stats) ==
    Result("invalid", state_,
           <<Fixed("invalid")>> \o _render_normal(story_, state_.node_id, flags, stats),
           FALSE)

\* int(trimmed) raises ValueError: the call returns nothing
StepRaise(state_) == [Result("raise", state_, <<>>, FALSE) EXCEPT !.raised = TRUE]

\* stats = dict(state.get("stats", ...)) followed by the two setdefault calls
StatsOf(state_) ==
    LET stats0 == Get(state_, "stats", ZeroStats)
        stats1 == IF "suspicion" \in DOMAIN stats0 THEN stats0 ELSE DictSet(stats0, "suspicion", 0)
    IN  IF "silver" \in DOMAIN stats1 THEN stats1 ELSE DictSet(stats1, "silver", 0)

\* the branch of step that handles an input: the order of its tests
Branch(state_, user_input_, story_) ==
    LET trimmed == Strip(user_input_)
    IN  IF trimmed = <<>> THEN "empty"
        ELSE IF state_.mode = "ending"
        THEN IF trimmed = <<"1">> THEN "restart"
             ELSE IF trimmed = <<"9">> THEN "ending_exit"
             ELSE "ending_invalid"
        ELSE IF trimmed = <<"0">> THEN "help"
        ELSE IF trimmed = <<"9">> THEN "exit"
        ELSE IF trimmed = <<"8">> THEN "back"
        ELSE IF IsDigit(trimmed) /\ IntRaises(trimmed) THEN "raise"
        ELSE IF /\ IsDigit(trimmed)
                /\ 1 <= IntValue(trimmed)
                /\ IntValue(trimmed) <= Len(get_choices(story_, state_.node_id,
                                                        Get(state_, "flags", {}),
                                                        StatsOf(state_)))
        THEN "choice"
        ELSE "invalid"

\* step(state, user_input, story): the returned state, the output lines and the
\* exit flag, or raised when the call ends in an exception
step(state_, user_input_, story_) ==
    LET trimmed == Strip(user_input_)
        flags == Get(state_, "flags", {})
        history == Get(state_, "history_stack", <<>>)
        stats == StatsOf(state_)
        help_mode == Get(state_, "help_mode", 0)
        branch == Branch(state_, user_input_, story_)
    IN  CASE branch = "empty" -> StepEmpty(state_, story_, flags, stats)
          [] branch = "restart" -> StepRestart(state_, story_)
          [] branch = "ending_exit" -> StepEndingExit(state_)
          [] branch = "ending_invalid" -> StepEndingInvalid(state_, story_, stats)
          [] branch = "help" -> StepHelp(state_, story_, flags, stats, help_mode)
          [] branch = "exit" -> StepExit(state_)
          [] branch = "back" -> StepBack(state_, story_, flags, history, stats)
          [] branch = "raise" -> StepRaise(state_)
          [] branch = "choice" ->
               StepChoice(state_, story_, IntValue(trimmed), flags, history, stats, help_mode)
          [] OTHER -> StepInvalid(state_, story_, flags, stats)

\* the caller's state object after the call: flags, history and stats are
\* copied on entry and the choice, back and restart branches build new dicts,
\* but the help branch assigns state["help_mode"] on the object it was passed
\* and returns that same object
ArgumentAfter(state_, user_input_, story_) ==
    IF Branch(state_, user_input_, story_) = "help"
    THEN step(state_, user_input_, story_).state
    ELSE state_

----------------------------------------------------------------------------
(* run_game: the turn loop *)

\* the lines the player types: empty and blank lines, the control tokens, choice
\* indices in and out of range, padded and zero-padded digits, non-digits, and
\* digit strings that int() rejects
Inputs ==
    {<<>>, <<"sp">>, <<"sp", "sp">>,
     <<"0">>, <<"1">>, <<"2">>, <<"8">>, <<"9">>,
     <<"sp", "0">>, <<"1", "sp">>, <<"sp", "8">>, <<"9", "sp">>,
     <<"0", "0">>, <<"0", "1">>, <<"0", "8">>, <<"0", "9">>, <<"1", "2">>,
     <<"a">>, <<"1", "a">>, <<"1", "sp", "1">>,
     <<"sup2">>, <<"1", "sup2">>}

\* the state run_game builds before the first turn
InitialState(story_) ==
    [node_id |-> story_.start,
     history_stack |-> <<>>,
     mode |-> "normal",
     flags |-> {},
     stats |-> ZeroStats,
     last_choice |-> None,
     help_mode |-> 0]

Init ==
    /\ story \in ValidStories
    /\ state = InitialState(story)
    /\ prev_state = state
    /\ arg_state = state
    /\ log = <<>>
    /\ user_input = <<>>
    /\ output_lines = <<Line("title", <<story.title>>, 0, 0, <<>>)>>
                      \o _render_normal(story, state.node_id, state.flags, state.stats)
    /\ should_exit = FALSE
    /\ pc = "init"

\* the states the bounds of the model keep
WithinBounds(s) ==
    /\ Len(s.history_stack) <= MaxHistory
    /\ \A k \in DOMAIN s.stats : s.stats[k] >= -MaxStat /\ s.stats[k] <= MaxStat

\* one turn of the loop on the line inp:
\* state, output_lines, should_exit = step(state, user_input, story)
Turn(inp) ==
    /\ pc \in {"init", "stepped"}
    /\ \E r \in {step(state, inp, story)} :
         /\ WithinBounds(r.state)
         /\ state' = r.state
         /\ prev_state' = state
         /\ arg_state' = ArgumentAfter(state, inp, story)
         /\ user_input' = inp
         /\ output_lines' = r.output_lines
         /\ should_exit' = r.should_exit
         /\ pc' = IF r.raised THEN "raised"
                  ELSE IF r.should_exit THEN "exited" ELSE "stepped"
    /\ UNCHANGED <<story, log>>

\* the turns, by the branch of step that handles the line
TurnEmpty ==
    \E inp \in Inputs : Branch(state, inp, story) = "empty" /\ Turn(inp)

TurnRestart ==
    \E inp \in Inputs : Branch(state, inp, story) = "restart" /\ Turn(inp)

TurnEndingExit ==
    \E inp \in Inputs : Branch(state, inp, story) = "ending_exit" /\ Turn(inp)

TurnEndingInvalid ==
    \E inp \in Inputs : Branch(state, inp, story) = "ending_invalid" /\ Turn(inp)

TurnHelp ==
    \E inp \in Inputs : Branch(state, inp, story) = "help" /\ Turn(inp)

TurnExit ==
    \E inp \in Inputs : Branch(state, inp, story) = "exit" /\ Turn(inp)

TurnBack ==
    \E inp \in Inputs : Branch(state, inp, story) = "back" /\ Turn(inp)

TurnChoice ==
    \E inp \in Inputs : Branch(state, inp, story) = "choice" /\ Turn(inp)

TurnInvalid ==
    \E inp \in Inputs : Branch(state, inp, story) = "invalid" /\ Turn(inp)

TurnRaise ==
    \E inp \in Inputs : Branch(state, inp, story) = "raise" /\ Turn(inp)

Next ==
    \/ TurnEmpty
    \/ TurnRestart
    \/ TurnEndingExit
    \/ TurnEndingInvalid
    \/ TurnHelp
    \/ TurnExit
    \/ TurnBack
    \/ TurnChoice
    \/ TurnInvalid
    \/ TurnRaise

Spec == Init /\ [][Next]_vars

----------------------------------------------------------------------------
(* The choice filter on arbitrary player states: every node of the story,    *)
(* every flag set, every stats map over the three stat names                 *)

StatNames == {"suspicion", "silver", "favor"}

StatMaps == UNION {[D -> -1..MaxStat] : D \in SUBSET StatNames}

InitChoices ==
    /\ story \in ValidStories
    /\ \E n \in DOMAIN story.nodes, f \in SUBSET Flags, st \in StatMaps :
         state = [InitialState(story) EXCEPT !.node_id = n, !.flags = f, !.stats = st]
    /\ prev_state = state
    /\ arg_state = state
    /\ log = <<>>
    /\ user_input = <<>>
    /\ output_lines = <<>>
    /\ should_exit = FALSE
    /\ pc = "init"

NextChoices == TurnEmpty

SpecChoices == InitChoices /\ [][NextChoices]_vars

----------------------------------------------------------------------------
(* run_game from its first statement: load_story, validate_story, the title,  *)
(* the first rendering and the turn loop, one action per statement. log is    *)
(* the sequence of the calls run_game makes: output_fn, input_fn and step.    *)
(* The specification Spec above starts where the loop starts, takes a whole   *)
(* turn as one step and leaves log empty.                                     *)

\* most lines read by the turn loop
MaxTurns == 2

\* dict(d1, **d2)
Merge(d1, d2) ==
    [k \in (DOMAIN d1) \cup (DOMAIN d2) |-> IF k \in DOMAIN d2 THEN d2[k] ELSE d1[k]]

\* what story_path holds: no file, text that is not JSON, or a JSON value
FileMissing == [file |-> "missing"]
FileUnparsable == [file |-> "unparsable"]

\* the nodes of a payload by shape: well-formed ones and one per node check
NodeKinds ==
    {"normal", "ending", "blank_text", "ending_with_choices", "no_choices",
     "choice_no_text", "choice_no_next", "choice_dangling", "choice_requires",
     "choice_requires_ghost", "second_choice_dangling"}

GoodChoice(next_id) == [text |-> "go", next |-> next_id]

NodeOf(kind, other) ==
    LET text == [text |-> <<"b">>]
        With(choices) == Merge(text, [choices |-> choices])
    IN  CASE kind = "normal" -> With(<<GoodChoice(other)>>)
          [] kind = "ending" -> Merge(text, [ending |-> TRUE])
          [] kind = "blank_text" -> [text |-> <<"sp">>, choices |-> <<GoodChoice(other)>>]
          [] kind = "ending_with_choices" ->
               Merge(With(<<GoodChoice(other)>>), [ending |-> TRUE])
          [] kind = "no_choices" -> text
          [] kind = "choice_no_text" -> With(<<[next |-> other]>>)
          [] kind = "choice_no_next" -> With(<<[text |-> "go"]>>)
          [] kind = "choice_dangling" -> With(<<GoodChoice("zz")>>)
          [] kind = "choice_requires" ->
               With(<<Merge(GoodChoice(other), [requires |-> <<"clue">>])>>)
          [] kind = "choice_requires_ghost" ->
               With(<<Merge(GoodChoice(other), [requires |-> <<"ghost">>])>>)
          [] OTHER -> With(<<GoodChoice(other), GoodChoice("zz")>>)

TitleKinds == {"absent", "present"}
StartKinds == {"absent", "present", "dangling"}
NodesKinds == {"empty", "present"}
FlagDescriptionKinds == {"absent", "null", "list", "dict"}
StatsConfigKinds == {"absent", "negative_max", "fail_node_dangling", "present"}

\* a JSON object with two nodes a and b, by the shape of each of its parts
Payload(title, start, nodes, kind_a, kind_b, flag_descriptions, stats_config) ==
    LET t == IF title = "present" THEN [title |-> "t"] ELSE EmptyDict
        st == CASE start = "present" -> [start |-> "a"]
                [] start = "dangling" -> [start |-> "zz"]
                [] OTHER -> EmptyDict
        n == IF nodes = "present"
             THEN [node_order |-> <<"a", "b">>,
                   nodes |-> [a |-> NodeOf(kind_a, "b"), b |-> NodeOf(kind_b, "a")]]
             ELSE [node_order |-> <<>>, nodes |-> EmptyDict]
        fd == CASE flag_descriptions = "null" -> [flag_descriptions |-> JNull]
                [] flag_descriptions = "list" -> [flag_descriptions |-> JList]
                [] flag_descriptions = "dict" -> [flag_descriptions |-> [clue |-> "d"]]
                [] OTHER -> EmptyDict
        sc == CASE stats_config = "negative_max" ->
                     [stats_config |-> [suspicion_max |-> -1, suspicion_fail_node |-> "b"]]
                [] stats_config = "fail_node_dangling" ->
                     [stats_config |-> [suspicion_max |-> 1, suspicion_fail_node |-> "zz"]]
                [] stats_config = "present" ->
                     [stats_config |-> [suspicion_max |-> 1, suspicion_fail_node |-> "b"]]
                [] OTHER -> EmptyDict
    IN  Merge(Merge(Merge(Merge(t, st), n), fd), sc)

Payloads ==
    {JList}
    \cup {Payload(t, st, n, ka, kb, fd, sc) :
            t \in TitleKinds, st \in StartKinds, n \in NodesKinds,
            ka \in NodeKinds, kb \in NodeKinds,
            fd \in FlagDescriptionKinds, sc \in StatsConfigKinds}

Sources == {FileMissing, FileUnparsable} \cup Payloads \cup Stories

\* load_story: the exception it raises, or the value it returns
load_story(file) ==
    IF file = FileMissing THEN [raised |-> "FileNotFoundError", value |-> file]
    ELSE IF file = FileUnparsable THEN [raised |-> "ValueError", value |-> file]
    ELSE [raised |-> None, value |-> file]

\* the lines the turn loop reads
RunInputs == {<<>>, <<"0">>, <<"1">>, <<"9">>, <<"a">>, <<"sup2">>}

\* the calls recorded in log
Output(line) == [ev |-> "output_fn", line |-> line]
Outputs(lines) == [k \in 1..Len(lines) |-> Output(lines[k])]
InputRead == [ev |-> "input_fn"]
StepCall(state_, user_input_, r) ==
    [ev |-> "step", arg |-> state_, inp |-> user_input_, raised |-> r.raised,
     ret |-> r.state, lines |-> r.output_lines, exit |-> r.should_exit]

\* the number of lines read so far
Turns == Cardinality({i \in 1..Len(log) : log[i].ev = "input_fn"})

InitRun ==
    /\ story \in Sources
    /\ state = EmptyDict
    /\ prev_state = EmptyDict
    /\ arg_state = EmptyDict
    /\ user_input = <<>>
    /\ output_lines = <<>>
    /\ should_exit = FALSE
    /\ log = <<>>
    /\ pc = "load"

\* try: story = load_story(story_path); validate_story(story)
\* except (FileNotFoundError, ValueError) as exc: output_fn(str(exc)); return 1
RunLoad ==
    /\ pc = "load"
    /\ \E l \in {load_story(story)} :
         IF l.raised # None
         THEN /\ log' = Append(log, Output(Line("error", <<l.raised>>, 0, 0, <<>>)))
              /\ pc' = "return_1"
         ELSE \E v \in {validate_story(l.value)} :
                IF v = Ok THEN log' = log /\ pc' = "title"
                ELSE IF v.reason = "TypeError" THEN log' = log /\ pc' = "load_raised"
                ELSE /\ log' = Append(log, Output(Line("error", <<v.reason, v.node>>,
                                                       0, 0, <<>>)))
                     /\ pc' = "return_1"
    /\ UNCHANGED <<story, state, prev_state, arg_state, user_input, output_lines, should_exit>>

\* output_fn(title); state = {...}
RunTitle ==
    /\ pc = "title"
    /\ log' = Append(log, Output(Line("title", <<story.title>>, 0, 0, <<>>)))
    /\ state' = InitialState(story)
    /\ prev_state' = state'
    /\ arg_state' = state'
    /\ pc' = "render"
    /\ UNCHANGED <<story, user_input, output_lines, should_exit>>

\* for line in _render_normal(...): output_fn(line)
RunRender ==
    /\ pc = "render"
    /\ log' = log \o Outputs(_render_normal(story, state.node_id, state.flags, state.stats))
    /\ pc' = "read"
    /\ UNCHANGED <<story, state, prev_state, arg_state, user_input, output_lines, should_exit>>

\* user_input = input_fn("> ")
RunRead ==
    /\ pc = "read"
    /\ Turns < MaxTurns
    /\ \E inp \in RunInputs : user_input' = inp
    /\ log' = Append(log, InputRead)
    /\ pc' = "step"
    /\ UNCHANGED <<story, state, prev_state, arg_state, output_lines, should_exit>>

\* state, output_lines, should_exit = step(state, user_input, story);
\* an exception of step leaves run_game
RunStep ==
    /\ pc = "step"
    /\ \E r \in {step(state, user_input, story)} :
         /\ log' = Append(log, StepCall(state, user_input, r))
         /\ prev_state' = state
         /\ arg_state' = ArgumentAfter(state, user_input, story)
         /\ IF r.raised
            THEN pc' = "raised" /\ UNCHANGED <<state, output_lines, should_exit>>
            ELSE /\ state' = r.state
                 /\ output_lines' = r.output_lines
                 /\ should_exit' = r.should_exit
                 /\ pc' = "write"
    /\ UNCHANGED <<story, user_input>>

\* for line in output_lines: output_fn(line)
RunWrite ==
    /\ pc = "write"
    /\ log' = log \o Outputs(output_lines)
    /\ pc' = "test"
    /\ UNCHANGED <<story, state, prev_state, arg_state, user_input, output_lines, should_exit>>

\* if should_exit: return 0
RunTest ==
    /\ pc = "test"
    /\ pc' = IF should_exit THEN "return_0" ELSE "read"
    /\ UNCHANGED <<story, state, prev_state, arg_state, user_input, output_lines,
                   should_exit, log>>

NextRun ==
    \/ RunLoad
    \/ RunTitle
    \/ RunRender
    \/ RunRead
    \/ RunStep
    \/ RunWrite
    \/ RunTest

SpecRun == InitRun /\ [][NextRun]_vars

----------------------------------------------------------------------------
(* Vocabulary of the properties *)

\* a call of step has returned
Stepped == pc \in {"stepped", "exited"}

Trimmed == Strip(user_input)

DeclaredChoices(node_id) == Get(story.nodes[node_id], "choices", <<>>)

\* the declared indices whose gates a player state passes
EligibleIdx(choices, flags, stats) ==
    {i \in 1..Len(choices) :
        /\ \A f \in Range(Get(choices[i], "requires", <<>>)) : f \in flags
        /\ \A p \in Range(Get(choices[i], "requires_stats", <<>>)) :
               Get(stats, p[1], 0) >= p[2]}

\* the k-th smallest element of a set of indices
Kth(S, k) == CHOOSE i \in S : Cardinality({j \in S : j < i}) = k - 1

\* a non-empty string of decimal digits
DecimalString(s) == s # <<>> /\ \A i \in 1..Len(s) : s[i] \in DecimalChars

PrevChoices == DeclaredChoices(prev_state.node_id)
PrevEligible == EligibleIdx(PrevChoices, prev_state.flags, prev_state.stats)

\* the input of the last call was a digit string whose value indexes a visible choice
IndexInRange ==
    /\ DecimalString(Trimmed)
    /\ IntValue(Trimmed) >= 1
    /\ IntValue(Trimmed) <= Cardinality(PrevEligible)

\* the last call applied a choice: normal mode, an index in range, no control token
ChoiceTaken ==
    /\ Stepped
    /\ prev_state.mode = "normal"
    /\ IndexInRange
    /\ Trimmed \notin {<<"8">>, <<"9">>}

ChosenChoice == PrevChoices[Kth(PrevEligible, IntValue(Trimmed))]

\* the delta a choice declares for a stat, 0 when it declares none
DeltaOf(choice, key) ==
    LET ds == Get(choice, "delta_stats", <<>>)
        at == {i \in 1..Len(ds) : ds[i][1] = key}
    IN  IF at = {} THEN 0 ELSE ds[CHOOSE i \in at : TRUE][2]

SuspicionAfter == Get(prev_state.stats, "suspicion", 0) + DeltaOf(ChosenChoice, "suspicion")

\* the suspicion threshold is configured and reached by the chosen choice
FailureForced ==
    /\ "stats_config" \in DOMAIN story
    /\ SuspicionAfter >= story.stats_config.suspicion_max

----------------------------------------------------------------------------
(* Properties *)

\* C1: for every node, flag set and stats map, get_choices holds exactly the
\* choices whose requires are all in the flags and whose requires_stats
\* thresholds are all met, get_locked_choices holds exactly the others, each
\* with exactly its missing flags and its unmet (stat, threshold) pairs, and
\* both lists keep the declared order.
C1_ChoicesPartition ==
    LET choices == DeclaredChoices(state.node_id)
        visible == get_choices(story, state.node_id, state.flags, state.stats)
        locked == get_locked_choices(story, state.node_id, state.flags, state.stats)
        E == EligibleIdx(choices, state.flags, state.stats)
        L == (1..Len(choices)) \ E
    IN  /\ Len(visible) = Cardinality(E)
        /\ \A k \in 1..Len(visible) : visible[k] = choices[Kth(E, k)]
        /\ Len(locked) = Cardinality(L)
        /\ \A k \in 1..Len(locked) :
             LET c == choices[Kth(L, k)]
             IN  /\ locked[k].choice = c
                 /\ Range(locked[k].missing_flags) = Range(Get(c, "requires", <<>>)) \ state.flags
                 /\ Range(locked[k].missing_stats) =
                      {p \in Range(Get(c, "requires_stats", <<>>)) :
                          Get(state.stats, p[1], 0) < p[2]}

\* a node rendered with a visible choice between locked ones, one locked by a
\* flag and a stat at once, one whose stat equals its threshold
C1_Witness ==
    /\ pc = "stepped"
    /\ LET choices == DeclaredChoices(state.node_id)
           visible == get_choices(story, state.node_id, state.flags, state.stats)
           locked == get_locked_choices(story, state.node_id, state.flags, state.stats)
       IN  /\ Len(visible) >= 1
           /\ Len(locked) >= 2
           /\ locked[1].choice = choices[1]
           /\ \E k \in 1..Len(locked) :
                locked[k].missing_flags # <<>> /\ locked[k].missing_stats # <<>>
           /\ \E i \in 1..Len(choices) :
                \E p \in Range(Get(choices[i], "requires_stats", <<>>)) :
                    Get(state.stats, p[1], 0) = p[2]

\* C2: with stats_config present, an in-range choice applied in normal mode
\* that leaves suspicion at or above suspicion_max returns mode ending at
\* suspicion_fail_node, whatever the choice's next is.
C2_SuspicionForcesEnding ==
    (ChoiceTaken /\ FailureForced) =>
        /\ state.mode = "ending"
        /\ state.node_id = story.stats_config.suspicion_fail_node

\* the threshold is reached by a choice whose destination is another ending
\* than the failure ending
C2_Witness ==
    /\ ChoiceTaken
    /\ FailureForced
    /\ Get(story.nodes[story.stats_config.suspicion_fail_node], "ending", FALSE)
    /\ Get(story.nodes[ChosenChoice.next], "ending", FALSE)
    /\ ChosenChoice.next # story.stats_config.suspicion_fail_node
    /\ state.node_id = story.stats_config.suspicion_fail_node

\* C3: from the initial state, after any sequence of step calls, silver is
\* never negative in the state.
C3_SilverNeverNegative == Get(state.stats, "silver", 0) >= 0

\* a choice whose silver delta exceeds the silver held has been applied
C3_Witness ==
    /\ ChoiceTaken
    /\ Get(prev_state.stats, "silver", 0) + DeltaOf(ChosenChoice, "silver") < 0
    /\ state.stats.silver = 0

\* C4: in normal mode, input 8 with a non-empty history moves to the last
\* history entry, removes it, stays in normal mode and keeps flags and stats;
\* with an empty history the state is unchanged and the output is the
\* cannot-go-back message followed by the rendering of the current node.
C4_Back ==
    (Stepped /\ prev_state.mode = "normal" /\ Trimmed = <<"8">>) =>
        IF prev_state.history_stack # <<>>
        THEN LET h == prev_state.history_stack
             IN  /\ state.node_id = h[Len(h)]
                 /\ state.history_stack = SubSeq(h, 1, Len(h) - 1)
                 /\ state.mode = "normal"
                 /\ state.flags = prev_state.flags
                 /\ state.stats = prev_state.stats
        ELSE /\ state = prev_state
             /\ output_lines =
                  <<Fixed("cannot_back")>>
                  \o _render_normal(story, state.node_id, state.flags, state.stats)

\* back from a history of two different nodes, with a flag and a stat held
C4_Witness ==
    /\ Stepped
    /\ prev_state.mode = "normal"
    /\ Trimmed = <<"8">>
    /\ Len(prev_state.history_stack) = 2
    /\ prev_state.history_stack[1] # prev_state.history_stack[2]
    /\ prev_state.flags # {}
    /\ prev_state.stats # ZeroStats

\* C5: from any state in ending mode, input 1 yields the start node, an empty
\* history, no flags, zeroed stats and normal mode, and does not signal exit.
C5_Restart ==
    (Stepped /\ prev_state.mode = "ending" /\ Trimmed = <<"1">>) =>
        /\ state.node_id = story.start
        /\ state.history_stack = <<>>
        /\ state.flags = {}
        /\ state.stats = ZeroStats
        /\ state.mode = "normal"
        /\ should_exit = FALSE

\* a restart from an ending reached with a history, a flag and non-zero stats
C5_Witness ==
    /\ Stepped
    /\ prev_state.mode = "ending"
    /\ Trimmed = <<"1">>
    /\ prev_state.history_stack # <<>>
    /\ prev_state.flags # {}
    /\ prev_state.stats # ZeroStats
    /\ prev_state.node_id # story.start

\* the effects of the chosen choice on flags and history, and on the position
\* when no suspicion failure is forced
ChoiceMovesPlayer ==
    /\ state.flags = prev_state.flags \cup Range(Get(ChosenChoice, "set_flags", <<>>))
    /\ state.history_stack = Append(prev_state.history_stack, prev_state.node_id)
    /\ (~FailureForced => state.node_id = ChosenChoice.next)

\* C6 as stated: in normal mode every digit string whose value k is between 1
\* and the number of visible choices selects the k-th visible choice: flags
\* united with set_flags, the old node pushed on the history, every stat of
\* delta_stats increased by its delta, node_id the choice's next unless a
\* suspicion failure is forced.
C6_AsStated ==
    (Stepped /\ prev_state.mode = "normal" /\ IndexInRange) =>
        /\ ChoiceMovesPlayer
        /\ \A p \in Range(Get(ChosenChoice, "delta_stats", <<>>)) :
             Get(state.stats, p[1], 0) = Get(prev_state.stats, p[1], 0) + p[2]

\* C6 amended: the same for every such digit string other than the control
\* tokens 8 and 9, with silver clamped to a minimum of 0 after its delta.
C6_ChoiceApplied ==
    ChoiceTaken =>
        /\ ChoiceMovesPlayer
        /\ \A p \in Range(Get(ChosenChoice, "delta_stats", <<>>)) :
             LET sum == Get(prev_state.stats, p[1], 0) + p[2]
             IN  Get(state.stats, p[1], 0) = IF p[1] = "silver" /\ sum < 0 THEN 0 ELSE sum

\* input 1 selects the second declared choice because the first is locked,
\* and the choice sets a flag and changes a stat
C6_Witness ==
    /\ ChoiceTaken
    /\ IntValue(Trimmed) = 1
    /\ Kth(PrevEligible, 1) = 2
    /\ Get(ChosenChoice, "set_flags", <<>>) # <<>>
    /\ Get(ChosenChoice, "delta_stats", <<>>) # <<>>
    /\ state.flags # prev_state.flags
    /\ state.stats # prev_state.stats

\* C7: when an in-range choice is applied and no suspicion failure is forced,
\* the state is at the choice's next, in ending mode iff that node is marked
\* ending (the output then ends with the ending text and the restart/exit
\* hint) and in normal mode otherwise; input 1 in ending mode returns to the
\* start node in normal mode with an empty history.
C7_EndingIffDestinationEnds ==
    /\ (ChoiceTaken /\ ~FailureForced) =>
          LET dest == ChosenChoice.next
              ends == Get(story.nodes[dest], "ending", FALSE)
              n == Len(output_lines)
          IN  /\ state.node_id = dest
              /\ state.mode = IF ends THEN "ending" ELSE "normal"
              /\ ends => /\ n >= 2
                         /\ SubSeq(output_lines, n - 1, n) =
                              <<Line("text", strip_scene_prefix(story.nodes[dest].text).text,
                                     0, 0, <<>>),
                                Fixed("ending_hint")>>
    /\ (Stepped /\ prev_state.mode = "ending" /\ Trimmed = <<"1">>) =>
          /\ state.node_id = story.start
          /\ state.mode = "normal"
          /\ state.history_stack = <<>>

\* an ending reached by a choice that raises suspicion below a configured threshold
C7_Witness ==
    /\ ChoiceTaken
    /\ "stats_config" \in DOMAIN story
    /\ ~FailureForced
    /\ DeltaOf(ChosenChoice, "suspicion") > 0
    /\ state.mode = "ending"
    /\ state.node_id = ChosenChoice.next

\* C8: in normal mode an input that is neither empty, a control token nor an
\* in-range choice index leaves the state unchanged, does not signal exit, and
\* yields the invalid-input message followed by the rendering of the node.
C8_InvalidInput ==
    (/\ pc # "init"
     /\ prev_state.mode = "normal"
     /\ Trimmed \notin {<<>>, <<"0">>, <<"8">>, <<"9">>}
     /\ ~IndexInRange) =>
        /\ pc = "stepped"
        /\ state = prev_state
        /\ should_exit = FALSE
        /\ output_lines =
             <<Fixed("invalid")>>
             \o _render_normal(story, state.node_id, state.flags, state.stats)

\* C9: step never raises: no call ends in an exception, and the index it
\* hands to apply_choice is always within the visible choices.
C9_StepNeverRaises ==
    /\ pc # "raised"
    /\ (pc # "init" /\ Branch(prev_state, user_input, story) = "choice") =>
          ~ApplyChoiceRaises(story, prev_state.node_id, IntValue(Trimmed),
                             prev_state.flags, prev_state.stats)

\* C10: step signals exit iff the trimmed input is 9, in normal and in ending
\* mode; the output then contains the exit message and the state is unchanged.
C10_ExitIffNine ==
    pc # "init" =>
        /\ should_exit = (Trimmed = <<"9">>)
        /\ Trimmed = <<"9">> =>
             /\ Fixed("exit") \in Range(output_lines)
             /\ state = prev_state

\* exit from ending mode on a padded 9
C10_Witness ==
    /\ pc = "exited"
    /\ prev_state.mode = "ending"
    /\ user_input # Trimmed
    /\ should_exit

\* C11: an input that is empty after trimming leaves the state unchanged in
\* either mode and does not signal exit; the output is the normal rendering of
\* the current node in normal mode and the ending rendering in ending mode,
\* without the invalid-input message.
C11_EmptyInput ==
    (pc # "init" /\ Trimmed = <<>>) =>
        /\ pc = "stepped"
        /\ state = prev_state
        /\ should_exit = FALSE
        /\ output_lines =
             IF prev_state.mode = "ending"
             THEN _render_ending(story, prev_state.node_id, prev_state.stats)
             ELSE _render_normal(story, prev_state.node_id, prev_state.flags, prev_state.stats)
        /\ Fixed("invalid") \notin Range(output_lines)

\* a line of blanks typed at an ending
C11_Witness ==
    /\ pc = "stepped"
    /\ prev_state.mode = "ending"
    /\ user_input = <<"sp", "sp">>
    /\ Fixed("ending_hint") \in Range(output_lines)

\* the state a restart builds: the start node, nothing accumulated
FreshAtStart(s) ==
    /\ s.node_id = story.start
    /\ s.history_stack = <<>>
    /\ s.mode = "normal"
    /\ s.flags = {}
    /\ s.stats = ZeroStats

\* C12: in ending mode every non-empty input other than 1 and 9 leaves the
\* state unchanged and yields the invalid-input message followed by the ending
\* rendering; from an ending state the next state is the same state or the
\* fresh state at the start node.
C12_EndingAcceptsRestartAndExit ==
    /\ (pc # "init" /\ prev_state.mode = "ending" /\ Trimmed \notin {<<>>, <<"1">>, <<"9">>}) =>
          /\ pc = "stepped"
          /\ state = prev_state
          /\ should_exit = FALSE
          /\ output_lines =
               <<Fixed("invalid")>>
               \o _render_ending(story, prev_state.node_id, prev_state.stats)
    /\ (pc # "init" /\ prev_state.mode = "ending") =>
          state = prev_state \/ FreshAtStart(state)

\* back typed at an ending that was reached with a history
C12_Witness ==
    /\ pc = "stepped"
    /\ prev_state.mode = "ending"
    /\ Trimmed = <<"8">>
    /\ prev_state.history_stack # <<>>
    /\ state.node_id = prev_state.node_id

\* the last call handled input 0 in normal mode
HelpTaken == pc # "init" /\ prev_state.mode = "normal" /\ Trimmed = <<"0">>

HelpModeOf(s) == Get(s, "help_mode", 0)

\* C13: in normal mode input 0 turns help_mode 0 into 1 and 1 into 0, keeps
\* node_id, history, mode, flags and stats and does not signal exit; two
\* consecutive inputs 0 restore the help_mode the first one found.
C13_HelpToggles ==
    /\ [](HelpTaken =>
            /\ pc = "stepped"
            /\ HelpModeOf(prev_state) \in {0, 1}
            /\ HelpModeOf(state) = 1 - HelpModeOf(prev_state)
            /\ state.node_id = prev_state.node_id
            /\ state.history_stack = prev_state.history_stack
            /\ state.mode = prev_state.mode
            /\ state.flags = prev_state.flags
            /\ state.stats = prev_state.stats
            /\ should_exit = FALSE)
    /\ [][(HelpTaken /\ HelpTaken') => HelpModeOf(state') = HelpModeOf(prev_state)]_vars

\* input 0 typed while help_mode is 1, with a history, a flag and a stat held
C13_Witness ==
    /\ HelpTaken
    /\ HelpModeOf(prev_state) = 1
    /\ HelpModeOf(state) = 0
    /\ prev_state.history_stack # <<>>
    /\ prev_state.flags # {}
    /\ prev_state.stats # ZeroStats

\* C14: for every input, the state the caller passed to step is the same after
\* the call as before it.
C14_StepIsPure == pc # "init" => arg_state = prev_state

\* the lines of the diagnostic block in the output of a help call: what lies
\* between the two help lines and the rendering of the node
DiagnosticLines ==
    LET render == _render_normal(story, prev_state.node_id, prev_state.flags, prev_state.stats)
    IN  SubSeq(output_lines, 3, Len(output_lines) - Len(render))

\* the flags in sorted order
SortedFlags(flags) ==
    LET Held(f) == f \in flags
    IN  SelectSeq(FlagOrder, Held)

\* C18: on input 0 in normal mode the output is the two help lines, then the
\* diagnostic block (node id, sorted flags when any, the stat values, route
\* and index when the text carries them) exactly when help_mode was 1 on
\* entry, then the normal rendering of the node; from help_mode 0 the first 0
\* shows no diagnostic block and the second 0 shows it.
C18_DiagnosticsOnSecondHelp ==
    /\ [](HelpTaken =>
            LET render == _render_normal(story, prev_state.node_id,
                                         prev_state.flags, prev_state.stats)
                n == Len(output_lines)
                meta == strip_scene_prefix(story.nodes[prev_state.node_id].text).meta
                block == DiagnosticLines
            IN  /\ n >= Len(render) + 2
                /\ SubSeq(output_lines, 1, 2) = <<Fixed("help"), Fixed("help_hint")>>
                /\ SubSeq(output_lines, n - Len(render) + 1, n) = render
                /\ HelpModeOf(prev_state) # 1 => block = <<>>
                /\ HelpModeOf(prev_state) = 1 =>
                     /\ block # <<>>
                     /\ block[1] = Line("debug_node", <<prev_state.node_id>>, 0, 0, <<>>)
                     /\ Line("debug_stats", <<>>, prev_state.stats.suspicion,
                             prev_state.stats.silver, <<>>) \in Range(block)
                     /\ (prev_state.flags # {}) <=>
                          (Line("debug_flags", <<>>, 0, 0, SortedFlags(prev_state.flags))
                             \in Range(block))
                     /\ (prev_state.flags = {}) =>
                          ~\E i \in 1..Len(block) : block[i].kind = "debug_flags"
                     /\ (DOMAIN meta # {}) <=>
                          (\E i \in 1..Len(block) : block[i].kind = "debug_route")
                     /\ (DOMAIN meta # {}) =>
                          Line("debug_route", meta.route, meta.index, 0, <<>>) \in Range(block))
    /\ [][(HelpTaken /\ HelpModeOf(prev_state) = 0 /\ HelpTaken') =>
            /\ DiagnosticLines = <<>>
            /\ DiagnosticLines' # <<>>]_vars

\* the diagnostic block shown at a node whose text carries a route, with a flag held
C18_Witness ==
    /\ HelpTaken
    /\ HelpModeOf(prev_state) = 1
    /\ prev_state.flags # {}
    /\ \E i \in 1..Len(output_lines) : output_lines[i].kind = "debug_route"
    /\ \E i \in 1..Len(output_lines) : output_lines[i].kind = "debug_flags"

\* the flavor line the claim names for one non-zero delta
ClaimedFlavor(p) ==
    IF p[1] = "silver"
    THEN IF p[2] > 0 THEN Fixed("silver_up") ELSE Fixed("silver_down")
    ELSE IF p[1] = "suspicion"
         THEN IF p[2] > 0 THEN Fixed("suspicion_up") ELSE Fixed("suspicion_down")
    ELSE Fixed("stat_changed")

\* C19: when a choice is applied the output starts with exactly one flavor
\* line per stat of its delta_stats whose delta is not zero, in their order:
\* the silver or suspicion line of the delta's sign, a generic line for any
\* other stat, and no line for a zero delta; the rest of the output is the
\* forced-failure line, if any, and the rendering.
C19_FlavorLines ==
    ChoiceTaken =>
        LET NonZero(p) == p[2] # 0
            nz == SelectSeq(Get(ChosenChoice, "delta_stats", <<>>), NonZero)
            expected == [k \in 1..Len(nz) |-> ClaimedFlavor(nz[k])]
            rest == SubSeq(output_lines, Len(expected) + 1, Len(output_lines))
        IN  /\ Len(output_lines) >= Len(expected)
            /\ SubSeq(output_lines, 1, Len(expected)) = expected
            /\ rest # <<>>
            /\ rest[1].kind \in {"text", "forced_fail"}

----------------------------------------------------------------------------
(* Properties of validate_story and run_game, under SpecRun *)

\* load_story returned a payload and validate_story has judged it
Validated == pc # "load" /\ story \notin {FileMissing, FileUnparsable}

\* validate_story returned: run_game went on to the title
Accepted == Validated /\ pc \notin {"return_1", "load_raised"}

\* the conditions C15 lists, read off the payload
WellFormed(s) ==
    LET nodes == Get(s, "nodes", EmptyDict)
        fd == Get(s, "flag_descriptions", EmptyDict)
        Described(f) == IsDict(fd) /\ f \in DOMAIN fd
    IN  /\ DOMAIN nodes # {}
        /\ Get(s, "start", None) \in DOMAIN nodes
        /\ "stats_config" \in DOMAIN s =>
             /\ Get(s.stats_config, "suspicion_fail_node", None) \in DOMAIN nodes
             /\ "suspicion_max" \in DOMAIN s.stats_config
             /\ s.stats_config.suspicion_max >= 0
        /\ \A n \in DOMAIN nodes :
             LET choices == Get(nodes[n], "choices", <<>>)
             IN  IF Get(nodes[n], "ending", FALSE)
                 THEN choices = <<>>
                 ELSE /\ choices # <<>>
                      /\ \A i \in 1..Len(choices) :
                           /\ Get(choices[i], "next", None) \in DOMAIN nodes
                           /\ \A f \in Range(Get(choices[i], "requires", <<>>)) : Described(f)

\* C15: validate_story accepts a story only if start is a key of nodes, nodes
\* is not empty, a present stats_config has a suspicion_fail_node that is a key
\* of nodes and a non-negative suspicion_max, every ending node has no choices
\* and every other node has some, and every choice of a non-ending node has a
\* next that is a key of nodes and only described flags in requires; a story
\* violating any of these is rejected, whichever node the violation is in.
C15_AcceptedStoriesAreWellFormed == Accepted => WellFormed(story)

\* an accepted story with a stats_config, an ending node after the start
\* node and a choice that requires a described flag
C15_Witness ==
    /\ Accepted
    /\ "stats_config" \in DOMAIN story
    /\ ~Get(story.nodes[story.start], "ending", FALSE)
    /\ \E n \in DOMAIN story.nodes : Get(story.nodes[n], "ending", FALSE)
    /\ \E n \in DOMAIN story.nodes :
         \E c \in Range(Get(story.nodes[n], "choices", <<>>)) :
            /\ Get(c, "requires", <<>>) # <<>>
            /\ Range(c.requires) \subseteq DOMAIN story.flag_descriptions

\* validate_story does not accept the payload
Rejected == Validated /\ validate_story(story) # Ok

\* C16: when the story source is missing, fails to parse or is rejected by
\* validate_story, run_game writes exactly one message to the output sink and
\* returns a non-zero status, and calls neither the input function nor step.
C16_FatalStartup ==
    (pc # "load" /\ (story \in {FileMissing, FileUnparsable} \/ Rejected)) =>
        /\ pc = "return_1"
        /\ Len(log) = 1
        /\ log[1].ev = "output_fn"

\* the positions of the calls of step and of input_fn in log
StepCalls == {i \in 1..Len(log) : log[i].ev = "step"}
InputCalls == {i \in 1..Len(log) : log[i].ev = "input_fn"}

\* the first rendering: the start node for the state run_game builds
FirstRendering == _render_normal(story, story.start, {}, ZeroStats)

\* the lines a call of step returned are the next calls in log
LinesWritten(i) ==
    /\ i + Len(log[i].lines) <= Len(log)
    /\ SubSeq(log, i + 1, i + Len(log[i].lines)) = Outputs(log[i].lines)

\* C17: for a valid story run_game prints the title exactly once, then the
\* rendering of the initial node, then repeats reading one line, calling step
\* and writing every returned line, in that order; each call of step gets the
\* state the previous one returned; run_game returns 0 at the first step that
\* signals exit, reads nothing after it, and does not stop before one does.
C17_TurnLoop ==
    Accepted =>
        LET title == Output(Line("title", <<story.title>>, 0, 0, <<>>))
            first == 1 + Len(FirstRendering)
        IN  /\ pc # "title" => log[1] = title
            /\ \A i \in 2..Len(log) : log[i] # title
            /\ pc \notin {"title", "render"} =>
                 /\ Len(log) >= first
                 /\ SubSeq(log, 2, first) = Outputs(FirstRendering)
            /\ \A i \in InputCalls :
                 /\ i > first
                 /\ i = first + 1 \/
                      \E j \in StepCalls :
                         /\ j < i
                         /\ log[j - 1].ev = "input_fn"
                         /\ i = j + Len(log[j].lines) + 1
                         /\ LinesWritten(j)
                 /\ i < Len(log) => log[i + 1].ev = "step"
            /\ \A j \in StepCalls :
                 /\ log[j - 1].ev = "input_fn"
                 /\ log[j].arg =
                      IF \E k \in StepCalls : k < j
                      THEN log[CHOOSE k \in StepCalls :
                                  k < j /\ \A q \in StepCalls : q < j => q <= k].ret
                      ELSE InitialState(story)
                 /\ pc \in {"test", "read", "return_0"} \/ j + Len(log[j].lines) <= Len(log) =>
                      LinesWritten(j)
                 /\ log[j].exit => \A i \in (j + 1)..Len(log) : log[i].ev = "output_fn"
            /\ pc = "return_0" =>
                 \E j \in StepCalls : log[j].exit /\ Len(log) = j + Len(log[j].lines)
            /\ (\E j \in StepCalls : log[j].exit) => pc \in {"write", "test", "return_0"}
            /\ pc \in {"title", "render", "read", "step", "write", "test", "return_0"}

\* the reason of the message run_game wrote for a rejected story
ReportedReason == log[1].line.text[1]

\* the reason C20's order gives: the first violated check among root, title,
\* start (non-empty, present in nodes), nodes, flag_descriptions, stats_config
ClaimedReason(s) ==
    LET nodes == Get(s, "nodes", EmptyDict)
        fd == Get(s, "flag_descriptions", EmptyDict)
    IN  IF ~IsDict(s) THEN "root"
        ELSE IF Get(s, "title", "") = "" THEN "title"
        ELSE IF Get(s, "start", "") = "" THEN "start"
        ELSE IF s.start \notin DOMAIN nodes THEN "start_missing"
        ELSE IF DOMAIN nodes = {} THEN "nodes"
        ELSE IF fd # JNull /\ ~IsDict(fd) THEN "flag_descriptions"
        ELSE IF "stats_config" \in DOMAIN s
                /\ ("suspicion_max" \notin DOMAIN s.stats_config
                    \/ s.stats_config.suspicion_max < 0)
             THEN "suspicion_max"
        ELSE IF "stats_config" \in DOMAIN s
                /\ Get(s.stats_config, "suspicion_fail_node", "") = ""
             THEN "suspicion_fail_node"
        ELSE IF "stats_config" \in DOMAIN s
                /\ s.stats_config.suspicion_fail_node \notin DOMAIN nodes
             THEN "suspicion_fail_node_missing"
        ELSE "node"

TopLevelReasons ==
    {"root", "title", "start", "start_missing", "nodes", "flag_descriptions",
     "suspicion_max", "suspicion_fail_node", "suspicion_fail_node_missing"}

\* C20: validate_story reports one error per call, that of the first violated
\* check in the order root, title, start (non-empty and present in nodes),
\* nodes, flag_descriptions, stats_config, then the checks of the nodes; a
\* start that is not a key of nodes is reported before any stats_config error.
C20_FirstViolatedCheckReported ==
    (Validated /\ pc = "return_1") =>
        /\ Len(log) = 1
        /\ IF ClaimedReason(story) = "node"
           THEN ReportedReason \notin TopLevelReasons
           ELSE ReportedReason = ClaimedReason(story)

----------------------------------------------------------------------------
(* Properties of the states the turn loop reaches, under Spec *)

\* the last call applied a choice and the player is in normal mode after it
ChoiceLedToNormal == ChoiceTaken /\ state.mode = "normal"

\* C21: from a normal state, an in-range choice that leads to a normal node
\* followed by input 8 returns node_id and history_stack to their values
\* before the choice, while flags and stats keep the effects of the choice.
C21_ChoiceThenBack ==
    [][(ChoiceLedToNormal /\ pc' = "stepped" /\ Strip(user_input') = <<"8">>) =>
          /\ state'.node_id = prev_state.node_id
          /\ state'.history_stack = prev_state.history_stack
          /\ state'.mode = "normal"
          /\ state'.flags = prev_state.flags \cup Range(Get(ChosenChoice, "set_flags", <<>>))
          /\ state'.flags = state.flags
          /\ state'.stats = state.stats]_vars

\* back taken right where a choice that set a flag and changed a stat had
\* led, from a history of two entries
C21_Witness ==
    /\ pc = "stepped"
    /\ prev_state.mode = "normal"
    /\ Trimmed = <<"8">>
    /\ Len(prev_state.history_stack) = 2
    /\ Get(prev_state, "last_choice", None) # None
    /\ prev_state.flags # {}
    /\ prev_state.stats # ZeroStats
    /\ state.node_id # prev_state.node_id
    /\ state.flags = prev_state.flags

NodeIsEnding(node_id) == Get(story.nodes[node_id], "ending", FALSE)

\* C22: in every reachable state of an accepted story, mode is ending iff the
\* node at node_id is marked ending, the initial state and the state after a
\* forced jump to suspicion_fail_node included.
C22_ModeMatchesNode == (state.mode = "ending") <=> NodeIsEnding(state.node_id)

\* C23: in every reachable state of an accepted story, node_id is a key of
\* nodes and every entry of history_stack is a key of nodes that is not an
\* ending node.
C23_PositionsAreNodes ==
    /\ state.node_id \in DOMAIN story.nodes
    /\ \A i \in 1..Len(state.history_stack) :
         /\ state.history_stack[i] \in DOMAIN story.nodes
         /\ ~NodeIsEnding(state.history_stack[i])

\* an ending reached by a choice, with two entries on the history
C23_Witness ==
    /\ ChoiceTaken
    /\ state.mode = "ending"
    /\ NodeIsEnding(state.node_id)
    /\ Len(state.history_stack) = 2

\* C24 as stated: with a stats_config, suspicion is below suspicion_max in
\* every reachable state in normal mode, for every accepted suspicion_max.
C24_AsStated ==
    ("stats_config" \in DOMAIN story /\ state.mode = "normal") =>
        Get(state.stats, "suspicion", 0) < story.stats_config.suspicion_max

\* C24 amended: the same for every suspicion_max of at least 1; with
\* suspicion_max 0 a state in normal mode has suspicion at or above the
\* threshold only with suspicion 0, as in the initial state and after restart.
C24_BelowThreshold ==
    ("stats_config" \in DOMAIN story /\ state.mode = "normal") =>
        IF story.stats_config.suspicion_max >= 1
        THEN Get(state.stats, "suspicion", 0) < story.stats_config.suspicion_max
        ELSE Get(state.stats, "suspicion", 0) <= 0

\* a choice that raised suspicion to one below a threshold of at least 1 and
\* left the player in normal mode
C24_Witness ==
    /\ ChoiceTaken
    /\ "stats_config" \in DOMAIN story
    /\ story.stats_config.suspicion_max >= 1
    /\ DeltaOf(ChosenChoice, "suspicion") > 0
    /\ state.mode = "normal"
    /\ state.stats.suspicion = story.stats_config.suspicion_max - 1

\* state.get("last_choice")
LastChoiceOf(s) == Get(s, "last_choice", None)

\* C25: in normal mode help_mode changes only on input 0 and last_choice only
\* when a choice is applied; back, a choice, empty input and invalid input
\* return the help_mode they were given, and back, help, empty input and
\* invalid input the last_choice they were given.
C25_HelpAndLastChoiceFrame ==
    (Stepped /\ prev_state.mode = "normal") =>
        /\ Trimmed # <<"0">> => HelpModeOf(state) = HelpModeOf(prev_state)
        /\ ~ChoiceTaken => LastChoiceOf(state) = LastChoiceOf(prev_state)

====
